---- MODULE Spec2Model ----
(***************************************************************************)
(* The terminal pane of MySSH (the session interaction controller) and    *)
(* the SSH API wrappers it calls.                                          *)
(*                                                                         *)
(* A JavaScript string is a sequence of atoms.  An atom is a whitespace    *)
(* character (" " or "\n"), a separator, a digit, or a run of other        *)
(* characters that no operation of the program cuts.  trim, split,         *)
(* startsWith, replace, parseInt and toLowerCase work on these sequences   *)
(* as the JavaScript functions work on characters.  The texts the source   *)
(* writes in Chinese (the welcome line, the connection banner, the default *)
(* error message, the warning marker) stand here in English.               *)
(***************************************************************************)
EXTENDS Integers, Sequences, FiniteSets

\* ------------------------------------------------------------------ bounds

\* handleCommand runs at most MaxCommands times in a behaviour.
MaxCommands == 2
\* props.server.connected changes at most MaxToggles times in a behaviour.
MaxToggles == 2
\* In the specification of the whole pane it changes at most MaxTogglesWhole
\* times.
MaxTogglesWhole == 1

\* The number of presses of the tab key on a non-blank input.
MaxCompletions == 1

\* The number of calls of registerShortcut.
MaxShortcuts == 3

\* ----------------------------------------------------------------- strings

IsWhitespace(c) == c \in {" ", "\n"}

RECURSIVE TrimStart(_)
TrimStart(s) ==
  IF s # <<>> /\ IsWhitespace(Head(s)) THEN TrimStart(Tail(s)) ELSE s

RECURSIVE TrimEnd(_)
TrimEnd(s) ==
  IF s # <<>> /\ IsWhitespace(s[Len(s)])
  THEN TrimEnd(SubSeq(s, 1, Len(s) - 1))
  ELSE s

\* String.prototype.trim
Trim(s) == TrimEnd(TrimStart(s))

\* String.prototype.startsWith
StartsWith(s, p) == Len(p) <= Len(s) /\ SubSeq(s, 1, Len(p)) = p

\* s.replace(p, r) for a string p that s starts with: the first occurrence
\* of p is the one at index 0.
ReplacePrefix(s, p, r) == r \o SubSeq(s, Len(p) + 1, Len(s))

\* String.prototype.split('\n'): the segments between newlines, empty ones kept.
RECURSIVE SplitLines(_)
SplitLines(s) ==
  IF \E i \in 1..Len(s) : s[i] = "\n"
  THEN LET i == CHOOSE k \in 1..Len(s) :
                  s[k] = "\n" /\ \A j \in 1..(k - 1) : s[j] # "\n"
       IN  <<SubSeq(s, 1, i - 1)>> \o SplitLines(SubSeq(s, i + 1, Len(s)))
  ELSE <<s>>

\* Array.prototype.join(sep)
RECURSIVE Join(_, _)
Join(ss, sep) ==
  IF ss = <<>> THEN <<>>
  ELSE IF Len(ss) = 1 THEN ss[1]
  ELSE ss[1] \o sep \o Join(Tail(ss), sep)

Digits == <<"0", "1", "2", "3", "4", "5", "6", "7", "8", "9">>

IsDigit(c) == \E d \in 1..10 : Digits[d] = c

DigitValue(c) == (CHOOSE d \in 1..10 : Digits[d] = c) - 1

\* The template literal `${n}` of a non-negative integer.
RECURSIVE NumberToString(_)
NumberToString(n) ==
  IF n < 10 THEN <<Digits[n + 1]>>
  ELSE NumberToString(n \div 10) \o <<Digits[(n % 10) + 1]>>

NaN == -1

RECURSIVE ParseDigits(_, _)
ParseDigits(s, acc) ==
  IF s # <<>> /\ IsDigit(Head(s))
  THEN ParseDigits(Tail(s), acc * 10 + DigitValue(Head(s)))
  ELSE acc

\* parseInt on an unsigned string: the value of the leading digits, NaN
\* (here -1, never a value of a digit string) without one.
parseInt(s) ==
  LET t == TrimStart(s)
  IN  IF t # <<>> /\ IsDigit(Head(t)) THEN ParseDigits(t, 0) ELSE NaN

\* String.prototype.toLowerCase on the atoms the model uses.
LowerAtom(c) == IF c = "Root" THEN "root" ELSE c

toLowerCase(s) == [i \in 1..Len(s) |-> LowerAtom(s[i])]

\* a || b on strings: the empty string is falsy.
OrElse(a, b) == IF a # <<>> THEN a ELSE b

\* ---------------------------------------------------- the environment's data

\* props.server, as the parent component passes it (id, name, host, port,
\* username); connected is the variable of the same name below.
Servers ==
  { [id |-> 1, name |-> <<"prod-1">>, host |-> <<"10.0.0.1">>, port |-> 22,
     username |-> <<"u">>],
    [id |-> 2, name |-> <<>>, host |-> <<"db">>, port |-> 2222,
     username |-> <<>>] }

\* What the user can type into the input field.
Inputs == { <<" ">>, <<" ", "ls", " ">>, <<"cd">> }

\* Results of the backend's execute_ssh_command, in the shape ssh.js documents:
\* {output, exitCode, isInteractive, interactiveMessage?, newDir?, outputLines}.
Results ==
  { [output |-> <<"a", "\n", "b", "\n">>, exitCode |-> 0, isInteractive |-> FALSE,
     outputLines |-> << <<"a">>, <<"b">> >>],
    [output |-> <<"ls: no such file", "\n">>, exitCode |-> 2, isInteractive |-> FALSE,
     outputLines |-> << <<"ls: no such file">> >>],
    [output |-> <<>>, exitCode |-> 0, isInteractive |-> TRUE,
     interactiveMessage |-> <<"vim needs a terminal">>, newDir |-> <<"/tmp">>,
     outputLines |-> << <<"warning:", " ", "interactive">>, <<"vim needs a terminal">> >>],
    [output |-> <<"/home/", "u", "/", "p", "\n">>, exitCode |-> 0, isInteractive |-> TRUE,
     newDir |-> <<" ", "/home/", "u", "/", "p", "\n">>,
     outputLines |-> << <<"/home/", "u", "/", "p">> >>],
    [output |-> <<"/tmp", "\n">>, exitCode |-> 0, isInteractive |-> FALSE,
     newDir |-> <<"/tmp">>,
     outputLines |-> << <<"/tmp">> >>] }

\* The results of the completion service: a completion with no matches, a
\* completion together with a match list, a match list to show, a match list
\* not to show, no match at all, an empty completion with a match list, and a
\* result without the list of matches.
Matches == << <<"ls">>, <<"lsof">> >>

CompletionResults ==
  { [completedInput |-> <<"ls", " ">>, matches |-> <<>>, shouldShowMatches |-> FALSE],
    [completedInput |-> <<"ls", " ">>, matches |-> Matches, shouldShowMatches |-> TRUE],
    [matches |-> Matches, shouldShowMatches |-> TRUE],
    [matches |-> Matches, shouldShowMatches |-> FALSE],
    [matches |-> <<>>, shouldShowMatches |-> TRUE],
    [completedInput |-> <<>>, matches |-> Matches, shouldShowMatches |-> TRUE],
    [shouldShowMatches |-> TRUE] }

\* Values the backend call (invoke) can reject with: a string, an empty
\* string, an object with a message.
\* The keys and the modifier options the callers of registerShortcut use.
ShortcutKeys == { <<"k">>, <<"s">> }

ShortcutOptions ==
  { [ctrl |-> TRUE, shift |-> FALSE, alt |-> FALSE, meta |-> FALSE],
    [ctrl |-> FALSE, shift |-> FALSE, alt |-> FALSE, meta |-> FALSE] }

Rejections ==
  { [type |-> "string", value |-> <<"timeout">>],
    [type |-> "string", value |-> <<>>],
    [type |-> "object", message |-> <<"auth failed", "\n", "\n", "retry">>] }

\* Outputs of the four probes of fetchPromptInfo.
WhoamiOutputs == { <<"u", "\n">>, <<"root", "\n">> }
HostnameOutputs == { <<"web", "\n">> }
IdOutputs == { <<"0", "\n">>, <<"1", "0", "0", "0", "\n">> }
PwdOutputs == { <<"/home/", "u", "\n">>, <<>> }

\* ------------------------------------------------------------------- state

VARIABLES
  server,            \* props.server without its connected flag
  connected,         \* props.server.connected
  isRecording,       \* props.isRecording
  outputLines,       \* outputLines.value
  currentInput,      \* currentInput.value
  currentPrompt,     \* currentPrompt.value
  commandHistory,    \* commandHistory.value
  historyIndex,      \* historyIndex.value
  promptInfo,        \* promptInfo.value
  currentWorkingDir, \* currentWorkingDir.value
  recorded,          \* the 'record' events emitted, in order
  executing,         \* executeCommand activations awaiting executeSshCommand
  fetching,          \* fetchPromptInfo activations awaiting a probe
  submitted,         \* the value of the input field at each handleCommand
  toggles,           \* how often props.server.connected has changed
  uncaught,          \* errors that left a handler of the pane
  completing,        \* handleTabComplete activations awaiting completeCommand
  tabs,              \* how often handleTabComplete has asked for a completion
  shortcuts,         \* the module's Map of shortcuts: composite key -> keyHandler
  listeners,         \* the keydown listeners attached to the document
  keyHandlers        \* the composite key of each keyHandler closure created

vars ==
  << server, connected, isRecording, outputLines, currentInput, currentPrompt,
     commandHistory, historyIndex, promptInfo, currentWorkingDir, recorded,
     executing, fetching, submitted, toggles, uncaught, completing, tabs,
     shortcuts, listeners, keyHandlers >>

\* The state of the shortcut module, which the pane never touches.
registry == << shortcuts, listeners, keyHandlers >>

\* The state of the pane, which the shortcut module never touches.
paneVars ==
  << server, connected, isRecording, outputLines, currentInput, currentPrompt,
     commandHistory, historyIndex, promptInfo, currentWorkingDir, recorded,
     executing, fetching, submitted, toggles, uncaught, completing, tabs >>

\* The variables the connection and the prompt-info refresh leave alone.
editVars == << currentInput, commandHistory, historyIndex, submitted >>

RemoveAt(seq, i) == SubSeq(seq, 1, i - 1) \o SubSeq(seq, i + 1, Len(seq))

Line(type, content, prompt) ==
  [type |-> type, content |-> content, prompt |-> prompt]

\* The prompt state at construction and after a disconnect.
EmptyPromptInfo ==
  [username |-> <<>>, hostname |-> <<>>, isRoot |-> FALSE, currentDir |-> <<"~">>]

\* A fetchPromptInfo activation that has issued its first probe.
FetchStart ==
  [pc |-> "whoami", username |-> <<>>, hostname |-> <<>>, isRoot |-> FALSE]

\* The state after setup and onMounted: the buffer holds the welcome line, and
\* a pane mounted on a connected server has started fetchPromptInfo.
Init ==
  /\ server \in Servers
  /\ connected \in BOOLEAN
  /\ isRecording \in BOOLEAN
  /\ outputLines = << Line("output", <<"Welcome to the MySSH terminal">>, <<>>) >>
  /\ currentInput = <<>>
  /\ currentPrompt = <<"$", " ">>
  /\ commandHistory = <<>>
  /\ historyIndex = -1
  /\ promptInfo = EmptyPromptInfo
  /\ currentWorkingDir = <<"~">>
  /\ recorded = <<>>
  /\ executing = <<>>
  /\ fetching = IF connected THEN <<FetchStart>> ELSE <<>>
  /\ submitted = <<>>
  /\ toggles = 0
  /\ uncaught = <<>>
  /\ completing = <<>>
  /\ tabs = 0
  /\ shortcuts = << >>
  /\ listeners = {}
  /\ keyHandlers = <<>>

\* ------------------------------------------------------- the prompt state

\* The display form updateCurrentDirFromPath computes for fullPath: the
\* trimmed path, "~" for a blank one, and for a user who is not root
\* /home/<username> shortened to "~".
normalize(fullPath, username, isRoot) ==
  LET currentDir == OrElse(Trim(fullPath), <<"~">>)
      home == <<"/home/">> \o username
  IN  IF isRoot THEN currentDir
      ELSE IF currentDir = home THEN <<"~">>
      ELSE IF StartsWith(currentDir, home \o <<"/">>)
           THEN ReplacePrefix(currentDir, home, <<"~">>)
      ELSE currentDir

\* updatePrompt: the prompt text rendered from a prompt state.
PromptOf(info) ==
  info.username \o <<"@">> \o info.hostname \o <<":">> \o info.currentDir
    \o <<IF info.isRoot THEN "#" ELSE "$">> \o <<" ">>

\* What updateCurrentDirFromPath stores as the working directory.
StoredDir(fullPath) == Trim(fullPath)

\* updateCurrentDirFromPath(fullPath), run on the prompt state info.
updateCurrentDirFromPath(fullPath, info) ==
  LET shown == [info EXCEPT !.currentDir = normalize(fullPath, info.username, info.isRoot)]
  IN  /\ promptInfo' = shown
      /\ currentWorkingDir' = StoredDir(fullPath)
      /\ currentPrompt' = PromptOf(shown)

\* ------------------------------------------------------- the connection

\* `${props.server.host}:${props.server.port}`
HostPort == server.host \o <<":">> \o NumberToString(server.port)

\* A connected branch that starts the buffer afresh with the banner line.
ConnectStartsAfresh ==
  /\ ~connected
  /\ toggles < MaxToggles
  /\ connected' = TRUE
  /\ toggles' = toggles + 1
  /\ outputLines' = << Line("output", <<"Connected to ">> \o HostPort, <<>>) >>
  /\ fetching' = Append(fetching, FetchStart)
  /\ UNCHANGED << registry, server, completing, tabs, isRecording, currentPrompt, promptInfo, currentWorkingDir,
                  recorded, executing, uncaught, editVars >>

\* watch(() => props.server.connected), connected branch: the banner line is
\* pushed and fetchPromptInfo runs up to its first probe.
Connect ==
  /\ ~connected
  /\ toggles < MaxToggles
  /\ connected' = TRUE
  /\ toggles' = toggles + 1
  /\ outputLines' = Append(outputLines,
                           Line("output", <<"Connected to ">> \o HostPort, <<>>))
  /\ fetching' = Append(fetching, FetchStart)
  /\ UNCHANGED << registry, server, completing, tabs, isRecording, currentPrompt, promptInfo, currentWorkingDir,
                  recorded, executing, uncaught, editVars >>

\* A disconnected branch that resets the prompt state and renders the prompt
\* from it with updatePrompt.
DisconnectRendersPrompt ==
  /\ connected
  /\ toggles < MaxToggles
  /\ connected' = FALSE
  /\ toggles' = toggles + 1
  /\ currentPrompt' = PromptOf(EmptyPromptInfo)
  /\ promptInfo' = EmptyPromptInfo
  /\ UNCHANGED << registry, server, completing, tabs, isRecording, outputLines, currentWorkingDir, recorded,
                  executing, fetching, uncaught, editVars >>

\* watch(() => props.server.connected), disconnected branch.
Disconnect ==
  /\ connected
  /\ toggles < MaxToggles
  /\ connected' = FALSE
  /\ toggles' = toggles + 1
  /\ currentPrompt' = <<"$", " ">>
  /\ promptInfo' = EmptyPromptInfo
  /\ UNCHANGED << registry, server, completing, tabs, isRecording, outputLines, currentWorkingDir, recorded,
                  executing, fetching, uncaught, editVars >>

\* --------------------------------------------------------- fetchPromptInfo

\* parseInt(idResult.output.trim()) || 1000: NaN and 0 are falsy.
UserId(output) ==
  LET n == parseInt(Trim(output)) IN IF n = NaN \/ n = 0 THEN 1000 ELSE n

ProbeOutputs(pc) ==
  CASE pc = "whoami" -> WhoamiOutputs
    [] pc = "hostname" -> HostnameOutputs
    [] pc = "id" -> IdOutputs
    [] pc = "pwd" -> PwdOutputs

\* The activation f after its pending probe returned output (the first three
\* probes: the locals username, hostname and isRoot).
FetchAdvance(f, output) ==
  CASE f.pc = "whoami" ->
         [f EXCEPT !.pc = "hostname",
                   !.username = OrElse(OrElse(Trim(output), server.username), <<"user">>)]
    [] f.pc = "hostname" ->
         [f EXCEPT !.pc = "id",
                   !.hostname = OrElse(OrElse(Trim(output), server.host), <<"localhost">>)]
    [] f.pc = "id" ->
         [f EXCEPT !.pc = "pwd",
                   !.isRoot = (UserId(output) = 0 \/ toLowerCase(f.username) = <<"root">>)]

\* One of the first three probes of activation i returns output.
FetchProbeReturn(i, output) ==
  /\ i \in 1..Len(fetching)
  /\ fetching[i].pc # "pwd"
  /\ output \in ProbeOutputs(fetching[i].pc)
  /\ fetching' = [fetching EXCEPT ![i] = FetchAdvance(fetching[i], output)]
  /\ UNCHANGED << registry, server, completing, tabs, connected, isRecording, outputLines, currentPrompt,
                  promptInfo, currentWorkingDir, recorded, executing, toggles,
                  uncaught, editVars >>

\* The pwd probe of activation i returns output: the prompt state is replaced
\* and updateCurrentDirFromPath runs; the caller's scrollToBottom changes no
\* state.
FetchPwdReturn(i, output) ==
  /\ i \in 1..Len(fetching)
  /\ fetching[i].pc = "pwd"
  /\ LET f == fetching[i]
         fullPath == OrElse(Trim(output), <<"~">>)
     IN  updateCurrentDirFromPath(fullPath,
           [username |-> f.username, hostname |-> f.hostname,
            isRoot |-> f.isRoot, currentDir |-> <<"~">>])
  /\ fetching' = RemoveAt(fetching, i)
  /\ UNCHANGED << registry, server, completing, tabs, connected, isRecording, outputLines, recorded, executing,
                  toggles, uncaught, editVars >>

\* A catch block that writes the failure to the console and leaves the prompt
\* state as it is.
FallbackPromptInfoUntouched == promptInfo

\* The prompt state the catch block of fetchPromptInfo installs.
FallbackPromptInfo ==
  [username |-> OrElse(server.username, <<"user">>),
   hostname |-> OrElse(server.host, <<"localhost">>),
   isRoot |-> FALSE, currentDir |-> <<"~">>]

\* A probe of activation i fails: executeSshCommand throws and the catch block
\* of fetchPromptInfo runs.
FetchProbeFail(i) ==
  /\ i \in 1..Len(fetching)
  /\ promptInfo' = FallbackPromptInfo
  /\ currentPrompt' = PromptOf(FallbackPromptInfo)
  /\ fetching' = RemoveAt(fetching, i)
  /\ UNCHANGED << registry, server, completing, tabs, connected, isRecording, outputLines, currentWorkingDir,
                  recorded, executing, toggles, uncaught, editVars >>

\* ------------------------------------------------------------- recording

\* The parent of the pane changes the isRecording prop, which handleCommand
\* and executeCommand read each time they run.
ToggleRecording ==
  /\ isRecording' = ~isRecording
  /\ UNCHANGED << registry, server, completing, tabs, connected, outputLines, currentInput,
                  currentPrompt, commandHistory, historyIndex, promptInfo,
                  currentWorkingDir, recorded, executing, fetching, submitted,
                  toggles, uncaught >>

\* ------------------------------------------------------------- the input

\* v-model: the user edits the input field, which is rendered only while the
\* server is connected.
TypeInput(text) ==
  /\ connected
  /\ text # currentInput
  /\ currentInput' = text
  /\ UNCHANGED << registry, server, completing, tabs, connected, isRecording, outputLines, currentPrompt,
                  commandHistory, historyIndex, promptInfo, currentWorkingDir,
                  recorded, executing, fetching, submitted, toggles, uncaught >>

\* A handleHistoryUp that clears the input field when the cursor is already
\* at the oldest entry.
HandleHistoryUpClearsAtOldest ==
  /\ connected
  /\ IF Len(commandHistory) = 0
     THEN UNCHANGED << historyIndex, currentInput >>
     ELSE IF historyIndex > 0
     THEN /\ historyIndex' = historyIndex - 1
          /\ currentInput' = commandHistory[historyIndex' + 1]
     ELSE /\ historyIndex' = historyIndex
          /\ currentInput' = <<>>
  /\ UNCHANGED << registry, server, completing, tabs, connected, isRecording, outputLines, currentPrompt,
                  commandHistory, promptInfo, currentWorkingDir, recorded,
                  executing, fetching, submitted, toggles, uncaught >>

\* handleHistoryUp.  commandHistory.value[i] is 0-based: entry i is the
\* (i + 1)-th of the sequence.
HandleHistoryUp ==
  /\ connected
  /\ IF Len(commandHistory) = 0 \/ ~(historyIndex > 0)
     THEN UNCHANGED << historyIndex, currentInput >>
     ELSE /\ historyIndex' = historyIndex - 1
          /\ currentInput' = commandHistory[historyIndex' + 1]
  /\ UNCHANGED << registry, server, completing, tabs, connected, isRecording, outputLines, currentPrompt,
                  commandHistory, promptInfo, currentWorkingDir, recorded,
                  executing, fetching, submitted, toggles, uncaught >>

\* A handleHistoryDown that moves past the newest entry without clearing the
\* input field.
HandleHistoryDownKeepsInput ==
  /\ connected
  /\ IF historyIndex < Len(commandHistory) - 1
     THEN /\ historyIndex' = historyIndex + 1
          /\ currentInput' = commandHistory[historyIndex' + 1]
     ELSE /\ historyIndex' = Len(commandHistory)
          /\ currentInput' = currentInput
  /\ UNCHANGED << registry, server, completing, tabs, connected, isRecording, outputLines, currentPrompt,
                  commandHistory, promptInfo, currentWorkingDir, recorded,
                  executing, fetching, submitted, toggles, uncaught >>

\* handleHistoryDown
HandleHistoryDown ==
  /\ connected
  /\ IF historyIndex < Len(commandHistory) - 1
     THEN /\ historyIndex' = historyIndex + 1
          /\ currentInput' = commandHistory[historyIndex' + 1]
     ELSE /\ historyIndex' = Len(commandHistory)
          /\ currentInput' = <<>>
  /\ UNCHANGED << registry, server, completing, tabs, connected, isRecording, outputLines, currentPrompt,
                  commandHistory, promptInfo, currentWorkingDir, recorded,
                  executing, fetching, submitted, toggles, uncaught >>

\* ---------------------------------------------------------- handleCommand

\* A handleCommand that forgets to trim its input.
CommandOfUntrimmed(input) == input

\* const command = currentInput.value.trim()
CommandOf(input) == Trim(input)

\* A history that drops a command equal to its newest entry.
PushHistoryDeduplicated(history, command) ==
  IF history # <<>> /\ history[Len(history)] = command
  THEN history ELSE Append(history, command)

\* commandHistory.value.push(command)
PushHistory(history, command) == Append(history, command)

\* The request executeCommand passes to executeSshCommand.
ExecRequest(command) ==
  [serverId |-> server.id, command |-> command,
   currentDir |-> OrElse(currentWorkingDir, <<"~">>)]

\* handleCommand with a blank input: one input line, nothing dispatched.
HandleEmptyCommand ==
  /\ connected
  /\ Len(submitted) < MaxCommands
  /\ CommandOf(currentInput) = <<>>
  /\ submitted' = Append(submitted, currentInput)
  /\ outputLines' = Append(outputLines, Line("input", <<>>, currentPrompt))
  /\ currentInput' = <<>>
  /\ UNCHANGED << registry, server, completing, tabs, connected, isRecording, currentPrompt, commandHistory,
                  historyIndex, promptInfo, currentWorkingDir, recorded, executing,
                  fetching, toggles, uncaught >>

\* handleCommand with a command, up to the await in executeCommand: the
\* recording event, the history, the input line, and the execution request.
\* Nothing in it looks at the requests that are still pending.
HandleCommand ==
  /\ connected
  /\ Len(submitted) < MaxCommands
  /\ CommandOf(currentInput) # <<>>
  /\ LET command == CommandOf(currentInput)
     IN  /\ submitted' = Append(submitted, currentInput)
         /\ recorded' = IF isRecording
                        THEN Append(recorded, [type |-> "input", content |-> command])
                        ELSE recorded
         /\ commandHistory' = PushHistory(commandHistory, command)
         /\ historyIndex' = Len(commandHistory')
         /\ outputLines' = Append(outputLines, Line("input", command, currentPrompt))
         /\ currentInput' = <<>>
         /\ executing' = Append(executing, ExecRequest(command))
  /\ UNCHANGED << registry, server, completing, tabs, connected, isRecording, currentPrompt, promptInfo,
                  currentWorkingDir, fetching, toggles, uncaught >>

\* --------------------------------------------------------- executeCommand

\* The marker of a warning line of an interactive-command message (the
\* source's marker is the Chinese word for "warning" and a colon).
WarningMarker == <<"warning:">>

\* if (result.newDir)
HasNewDir(result) == "newDir" \in DOMAIN result /\ result.newDir # <<>>

\* An executeCommand that tests newDir before the interactive signal.
IsInteractiveSignalAfterNewDir(result) ==
  /\ ~HasNewDir(result)
  /\ result.isInteractive
  /\ "interactiveMessage" \in DOMAIN result
  /\ result.interactiveMessage # <<>>

\* result.isInteractive && result.interactiveMessage
IsInteractiveSignal(result) ==
  /\ result.isInteractive
  /\ "interactiveMessage" \in DOMAIN result
  /\ result.interactiveMessage # <<>>

\* The lines of the interactive branch.
InteractiveLines(result) ==
  [k \in 1..Len(result.outputLines) |->
     Line(IF StartsWith(result.outputLines[k], WarningMarker) THEN "error" ELSE "output",
          result.outputLines[k], <<>>)]

\* A directory-change branch that also shows the output of the directory probe.
NewDirLinesWithOutput(result) ==
  [k \in 1..Len(result.outputLines) |-> Line("output", result.outputLines[k], <<>>)]
    \o << Line("output", <<>>, <<>>) >>

\* The lines of the directory-change branch.
NewDirLines(result) == << Line("output", <<>>, <<>>) >>

\* result.exit_code === 0 ? 'output' : 'error': a result without the property
\* exit_code reads undefined, which is not 0.
ResultLineType(result) ==
  IF "exit_code" \in DOMAIN result /\ result["exit_code"] = 0
  THEN "output" ELSE "error"

\* The lines of the normal branch.
NormalLines(result) ==
  [k \in 1..Len(result.outputLines) |->
     Line(ResultLineType(result), result.outputLines[k], <<>>)]

\* The recording events of the normal branch.
NormalRecord(result) ==
  IF isRecording THEN << [type |-> "output", content |-> result.output] >> ELSE <<>>

\* executeSshCommand of activation i resolves with result and executeCommand
\* runs to its end; the scrollToBottom that follows changes no state.
ExecReturn(i, result) ==
  /\ i \in 1..Len(executing)
  /\ executing' = RemoveAt(executing, i)
  /\ IF IsInteractiveSignal(result)
     THEN /\ outputLines' = outputLines \o InteractiveLines(result)
          /\ UNCHANGED << promptInfo, currentWorkingDir, currentPrompt, recorded >>
     ELSE IF HasNewDir(result)
     THEN /\ updateCurrentDirFromPath(result.newDir, promptInfo)
          /\ outputLines' = outputLines \o NewDirLines(result)
          /\ UNCHANGED recorded
     ELSE /\ recorded' = recorded \o NormalRecord(result)
          /\ outputLines' = outputLines \o NormalLines(result)
          /\ UNCHANGED << promptInfo, currentWorkingDir, currentPrompt >>
  /\ UNCHANGED << registry, server, completing, tabs, connected, isRecording, fetching, toggles, uncaught,
                  editVars >>

\* The default message of a failed execution (the source's phrase is Chinese).
ExecFailedMessage == <<"Command execution failed">>

\* The catch block of executeSshCommand in ssh.js: the message of the Error it
\* throws for the value the backend call rejected with.
executeSshCommandMessage(error) ==
  IF error.type = "string" THEN error.value
  ELSE IF error.type = "object" /\ "message" \in DOMAIN error /\ error.message # <<>>
       THEN error.message
  ELSE IF error.type = "object" THEN <<"[object Object]">>
  ELSE ExecFailedMessage

\* props.server.name || `${props.server.host}:${props.server.port}`
ServerName == OrElse(server.name, HostPort)

\* The catch block of executeCommand, for the Error ssh.js throws: its message,
\* or the default for an empty one.
CaughtMessage(message) == OrElse(message, ExecFailedMessage)

\* An error line that prefixes the empty segments too.
ErrorLineContentAlwaysPrefixed(line) == ServerName \o <<":", " ">> \o line

\* content: line ? `${serverName}: ${line}` : ''
ErrorLineContent(line) ==
  IF line # <<>> THEN ServerName \o <<":", " ">> \o line ELSE <<>>

ErrorLines(message) ==
  LET errorLines == SplitLines(CaughtMessage(message))
  IN  [k \in 1..Len(errorLines) |-> Line("error", ErrorLineContent(errorLines[k]), <<>>)]

\* The errors the catch block of executeCommand lets through.
Rethrown(message) == <<>>

\* executeSshCommand of activation i throws and the catch block of
\* executeCommand runs.
ExecFail(i, error) ==
  /\ i \in 1..Len(executing)
  /\ executing' = RemoveAt(executing, i)
  /\ outputLines' = outputLines \o ErrorLines(executeSshCommandMessage(error))
  /\ uncaught' = uncaught \o Rethrown(executeSshCommandMessage(error))
  /\ UNCHANGED << registry, server, completing, tabs, connected, isRecording, currentPrompt, promptInfo,
                  currentWorkingDir, recorded, fetching, toggles, editVars >>

\* ------------------------------------------------------ handleTabComplete

\* The request handleTabComplete passes to completeCommand.
CompleteRequest(input) ==
  [serverId |-> server.id, input |-> input,
   currentDir |-> OrElse(currentWorkingDir, <<"~">>)]

\* handleTabComplete up to the await of completeCommand: a blank input
\* returns at once, any other one is trimmed and sent to the completion
\* service.
HandleTabComplete ==
  /\ connected
  /\ IF Trim(currentInput) = <<>>
     THEN UNCHANGED << completing, tabs >>
     ELSE /\ tabs < MaxCompletions
          /\ tabs' = tabs + 1
          /\ completing' = Append(completing, CompleteRequest(Trim(currentInput)))
  /\ UNCHANGED << registry, server, connected, isRecording, outputLines, currentInput,
                  currentPrompt, commandHistory, historyIndex, promptInfo,
                  currentWorkingDir, recorded, executing, fetching, submitted,
                  toggles, uncaught >>

\* if (result.completedInput): a completion that is a non-empty string.
HasCompletedInput(result) ==
  "completedInput" \in DOMAIN result /\ result.completedInput # <<>>

\* result.shouldShowMatches && result.matches && result.matches.length > 0
HasMatchesToShow(result) ==
  /\ result.shouldShowMatches
  /\ "matches" \in DOMAIN result
  /\ Len(result.matches) > 0

\* The input field after a completion result.
CompletedInput(result, input) ==
  IF HasCompletedInput(result) THEN result.completedInput ELSE input

\* A handleTabComplete that tests the match list in an if of its own, not in
\* the else of the completion.
MatchLinesBesideCompletion(result) ==
  IF HasMatchesToShow(result)
  THEN << Line("output", Join(result.matches, <<" ", " ">>), <<>>) >>
  ELSE <<>>

\* The line a completion result adds to the buffer: the matches joined by two
\* spaces, when there is no completion and there are matches to show.
MatchLines(result) ==
  IF ~HasCompletedInput(result) /\ HasMatchesToShow(result)
  THEN << Line("output", Join(result.matches, <<" ", " ">>), <<>>) >>
  ELSE <<>>

\* handleTabComplete from the return of completeCommand.
CompleteReturn(i, result) ==
  /\ i \in 1..Len(completing)
  /\ completing' = RemoveAt(completing, i)
  /\ currentInput' = CompletedInput(result, currentInput)
  /\ outputLines' = outputLines \o MatchLines(result)
  /\ UNCHANGED << registry, server, tabs, connected, isRecording, currentPrompt,
                  commandHistory, historyIndex, promptInfo, currentWorkingDir,
                  recorded, executing, fetching, submitted, toggles, uncaught >>

\* The default message of the catch block of completeCommand in ssh.js.
CompleteFailedMessage == <<"Completion failed">>

\* The catch block of completeCommand in ssh.js: the message of the Error it
\* throws for the value the backend call rejected with.
completeCommandMessage(error) ==
  IF error.type = "string" THEN error.value
  ELSE IF error.type = "object" /\ "message" \in DOMAIN error /\ error.message # <<>>
       THEN error.message
  ELSE IF error.type = "object" THEN <<"[object Object]">>
  ELSE CompleteFailedMessage

\* A catch block that shows the failure as executeCommand shows its own.
CompletionErrorLinesShown(message) ==
  << Line("error", ServerName \o <<":", " ">> \o message, <<>>) >>

\* The catch block of handleTabComplete writes the Error to the console and
\* adds nothing to the buffer.
CompletionErrorLines(message) == <<>>

\* The catch block of handleTabComplete throws nothing.
CompletionRethrown(message) == <<>>

\* handleTabComplete when completeCommand throws.
CompleteFail(i, error) ==
  /\ i \in 1..Len(completing)
  /\ completing' = RemoveAt(completing, i)
  /\ outputLines' = outputLines \o CompletionErrorLines(completeCommandMessage(error))
  /\ uncaught' = uncaught \o CompletionRethrown(completeCommandMessage(error))
  /\ UNCHANGED << registry, server, tabs, connected, isRecording, currentInput,
                  currentPrompt, commandHistory, historyIndex, promptInfo,
                  currentWorkingDir, recorded, executing, fetching, submitted,
                  toggles >>

\* --------------------------------------------------------------- clear

\* clear(), which the parent of the pane calls through the exposed method.
Clear ==
  /\ outputLines' = <<>>
  /\ UNCHANGED << registry, server, completing, tabs, connected, isRecording, currentInput,
                  currentPrompt, commandHistory, historyIndex, promptInfo,
                  currentWorkingDir, recorded, executing, fetching, submitted,
                  toggles, uncaught >>

\* ------------------------------------------------------------ shortcuts

\* A boolean in a template literal.
BooleanToString(b) == IF b THEN <<"true">> ELSE <<"false">>

\* `${key}-${ctrl}-${shift}-${alt}-${meta}`
CompositeKey(key, options) ==
  key \o <<"-">> \o BooleanToString(options.ctrl) \o <<"-">>
      \o BooleanToString(options.shift) \o <<"-">>
      \o BooleanToString(options.alt) \o <<"-">> \o BooleanToString(options.meta)

\* Map.prototype.set and Map.prototype.delete
MapSet(map, key, value) ==
  [k \in DOMAIN map \cup {key} |-> IF k = key THEN value ELSE map[k]]

MapDelete(map, key) == [k \in DOMAIN map \ {key} |-> map[k]]

\* registerShortcut: a new keyHandler closure (the next index of keyHandlers)
\* is stored under the composite key and attached to the document.
RegisterShortcut(key, options) ==
  /\ Len(keyHandlers) < MaxShortcuts
  /\ LET keyHandler == Len(keyHandlers) + 1
     IN  /\ keyHandlers' = Append(keyHandlers, CompositeKey(key, options))
         /\ shortcuts' = MapSet(shortcuts, CompositeKey(key, options), keyHandler)
         /\ listeners' = listeners \cup {keyHandler}
  /\ UNCHANGED paneVars

\* The function registerShortcut returned for keyHandler, which the caller may
\* call at any time and more than once.
Dispose(keyHandler) ==
  /\ keyHandler \in 1..Len(keyHandlers)
  /\ listeners' = listeners \ {keyHandler}
  /\ shortcuts' = MapDelete(shortcuts, keyHandlers[keyHandler])
  /\ UNCHANGED << keyHandlers, paneVars >>

\* unregisterShortcut
UnregisterShortcut(key, options) ==
  /\ IF CompositeKey(key, options) \in DOMAIN shortcuts
     THEN /\ listeners' = listeners \ {shortcuts[CompositeKey(key, options)]}
          /\ shortcuts' = MapDelete(shortcuts, CompositeKey(key, options))
     ELSE UNCHANGED << listeners, shortcuts >>
  /\ UNCHANGED << keyHandlers, paneVars >>

\* unregisterAllShortcuts
UnregisterAllShortcuts ==
  /\ listeners' = listeners \ {shortcuts[k] : k \in DOMAIN shortcuts}
  /\ shortcuts' = << >>
  /\ UNCHANGED << keyHandlers, paneVars >>

\* ----------------------------------------------------------- specification

AllProbeOutputs == WhoamiOutputs \cup HostnameOutputs \cup IdOutputs

\* The pane with its connection, its prompt-info refresh, its input field and
\* its command dispatch.
Next ==
  \/ toggles < MaxTogglesWhole /\ Connect
  \/ toggles < MaxTogglesWhole /\ Disconnect
  \/ \E i \in 1..Len(fetching), output \in AllProbeOutputs : FetchProbeReturn(i, output)
  \/ \E i \in 1..Len(fetching), output \in PwdOutputs : FetchPwdReturn(i, output)
  \/ \E i \in 1..Len(fetching) : FetchProbeFail(i)
  \/ \E text \in Inputs : TypeInput(text)
  \/ HandleHistoryUp
  \/ HandleHistoryDown
  \/ HandleEmptyCommand
  \/ HandleCommand
  \/ \E i \in 1..Len(executing), result \in Results : ExecReturn(i, result)
  \/ \E i \in 1..Len(executing), error \in Rejections : ExecFail(i, error)

Spec == Init /\ [][Next]_vars

\* The command the user types in the specification of the dispatch.
DispatchInputs == { <<" ", "ls", " ">> }

\* The command dispatch of a pane from its mounting to the loss of the
\* connection: the prompt-info refresh, the submission of a command and the
\* responses, which may arrive after the disconnect.
NextDispatch ==
  \/ Disconnect
  \/ \E i \in 1..Len(fetching), output \in AllProbeOutputs : FetchProbeReturn(i, output)
  \/ \E i \in 1..Len(fetching), output \in PwdOutputs : FetchPwdReturn(i, output)
  \/ \E i \in 1..Len(fetching) : FetchProbeFail(i)
  \/ \E text \in DispatchInputs : TypeInput(text)
  \/ HandleCommand
  \/ \E i \in 1..Len(executing), result \in Results : ExecReturn(i, result)
  \/ \E i \in 1..Len(executing), error \in Rejections : ExecFail(i, error)

SpecDispatch == Init /\ [][NextDispatch]_vars

\* The input field and the history of a pane during one connection: the
\* prompt-info refresh, the edits, the history keys and the submissions, with
\* no response arriving.
NextInput ==
  \/ \E i \in 1..Len(fetching), output \in AllProbeOutputs : FetchProbeReturn(i, output)
  \/ \E i \in 1..Len(fetching), output \in PwdOutputs : FetchPwdReturn(i, output)
  \/ \E i \in 1..Len(fetching) : FetchProbeFail(i)
  \/ \E text \in Inputs : TypeInput(text)
  \/ HandleHistoryUp
  \/ HandleHistoryDown
  \/ HandleEmptyCommand
  \/ HandleCommand

SpecInput == Init /\ [][NextInput]_vars

\* The tab completion of a pane from its mounting to the loss of the
\* connection: the prompt-info refresh, the edits, the submission of a command,
\* the tab key and the answers of the completion service, which may arrive
\* after later edits or after the disconnect.
NextCompletion ==
  \/ Disconnect
  \/ \E i \in 1..Len(fetching), output \in AllProbeOutputs : FetchProbeReturn(i, output)
  \/ \E i \in 1..Len(fetching), output \in PwdOutputs : FetchPwdReturn(i, output)
  \/ \E i \in 1..Len(fetching) : FetchProbeFail(i)
  \/ \E text \in Inputs : TypeInput(text)
  \/ HandleCommand
  \/ HandleTabComplete
  \/ \E i \in 1..Len(completing), result \in CompletionResults : CompleteReturn(i, result)
  \/ \E i \in 1..Len(completing), error \in Rejections : CompleteFail(i, error)

SpecCompletion == Init /\ [][NextCompletion]_vars

\* The recording of a pane: the parent switches the recording on and off
\* while commands are submitted and their responses arrive.
NextRecording ==
  \/ ToggleRecording
  \/ \E text \in DispatchInputs : TypeInput(text)
  \/ HandleCommand
  \/ \E i \in 1..Len(executing), result \in Results : ExecReturn(i, result)
  \/ \E i \in 1..Len(executing), error \in Rejections : ExecFail(i, error)

SpecRecording == Init /\ [][NextRecording]_vars

\* A pane that loses its connection and gets it back: the prompt-info refresh
\* of each connection, the submission of a command and the responses, and the
\* tab key, whose request carries the working directory as well.
NextReconnect ==
  \/ Connect
  \/ Disconnect
  \/ \E i \in 1..Len(fetching), output \in AllProbeOutputs : FetchProbeReturn(i, output)
  \/ \E i \in 1..Len(fetching), output \in PwdOutputs : FetchPwdReturn(i, output)
  \/ \E i \in 1..Len(fetching) : FetchProbeFail(i)
  \/ \E text \in DispatchInputs : TypeInput(text)
  \/ HandleCommand
  \/ \E i \in 1..Len(executing), result \in Results : ExecReturn(i, result)
  \/ HandleTabComplete

SpecReconnect == Init /\ [][NextReconnect]_vars

\* The shortcut module: its callers register shortcuts, call the functions
\* they got back, and unregister by key or altogether.
NextShortcuts ==
  \/ \E key \in ShortcutKeys, options \in ShortcutOptions : RegisterShortcut(key, options)
  \/ \E keyHandler \in 1..Len(keyHandlers) : Dispose(keyHandler)
  \/ \E key \in ShortcutKeys, options \in ShortcutOptions : UnregisterShortcut(key, options)
  \/ UnregisterAllShortcuts

SpecShortcuts == Init /\ [][NextShortcuts]_vars

\* The output buffer of a pane that is mounted on the named server, not yet
\* connected, and does not record: every operation that writes to the buffer, the
\* connection, the submission of a command, the responses and failures of the
\* execution service, the tab completion and the clearing of the buffer.
InitBuffer == Init /\ server.name # <<>> /\ ~connected /\ ~isRecording

NextBuffer ==
  \/ Connect
  \/ \E text \in DispatchInputs : TypeInput(text)
  \/ HandleEmptyCommand
  \/ HandleCommand
  \/ \E i \in 1..Len(executing), result \in Results : ExecReturn(i, result)
  \/ \E i \in 1..Len(executing), error \in Rejections : ExecFail(i, error)
  \/ HandleTabComplete
  \/ \E i \in 1..Len(completing), result \in CompletionResults : CompleteReturn(i, result)
  \/ \E i \in 1..Len(completing), error \in Rejections : CompleteFail(i, error)
  \/ Clear

SpecBuffer == InitBuffer /\ [][NextBuffer]_vars

\* ------------------------------------------------------------- properties

\* The display form of a full directory as the specification of the
\* directory normalizer gives it: "~" for a blank path, the path itself for
\* root, and for another user /home/<username> shortened to "~".
DisplayDir(fullDir, username, isRoot) ==
  IF \A k \in 1..Len(fullDir) : IsWhitespace(fullDir[k]) THEN <<"~">>
  ELSE IF isRoot THEN fullDir
  ELSE IF fullDir = <<"/home/">> \o username THEN <<"~">>
  ELSE IF StartsWith(fullDir, <<"/home/">> \o username \o <<"/">>)
       THEN <<"~">> \o SubSeq(fullDir, Len(username) + 2, Len(fullDir))
  ELSE fullDir

\* The prompt "{username}@{hostname}:{displayDir}{symbol} ".
RenderedPrompt(info) ==
  info.username \o <<"@">> \o info.hostname \o <<":">> \o info.currentDir
    \o (IF info.isRoot THEN <<"#", " ">> ELSE <<"$", " ">>)

\* The lines a step has added at the end of the output buffer.
Appended == SubSeq(outputLines', Len(outputLines) + 1, Len(outputLines'))

OnlyAppends ==
  /\ Len(outputLines') >= Len(outputLines)
  /\ SubSeq(outputLines', 1, Len(outputLines)) = outputLines

\* A response that is a directory change: it carries newDir and is no
\* interactive-command signal.
IsDirectoryChange(result) ==
  /\ "newDir" \in DOMAIN result /\ result.newDir # <<>>
  /\ ~(result.isInteractive /\ "interactiveMessage" \in DOMAIN result)

\* A response that is an interactive-command signal.
IsInteractiveResponse(result) ==
  result.isInteractive /\ "interactiveMessage" \in DOMAIN result

\* An input that is empty after trimming.
IsBlank(input) == \A k \in 1..Len(input) : IsWhitespace(input[k])

\* A step that is one run of handleCommand.
Submission == submitted' # submitted

\* C1: at most one command of the pane is in the Dispatching state: the
\* execution service is not invoked for a second command while the request
\* of an earlier one has not returned.
C1_SingleInFlight == Len(executing) <= 1

\* C2: in every reachable state the displayed directory is the normalized
\* form of the stored full directory for the current username and isRoot.
C2_DisplayDerivedFromFullDir ==
  promptInfo.currentDir =
    DisplayDir(currentWorkingDir, promptInfo.username, promptInfo.isRoot)

\* The effects C3 names besides the value of the full directory: the display
\* directory and the prompt are recomputed from the full directory, and exactly
\* one blank output line is appended.
DirectoryChangeEffects ==
  /\ promptInfo' = [promptInfo EXCEPT !.currentDir =
       DisplayDir(currentWorkingDir', promptInfo.username, promptInfo.isRoot)]
  /\ currentPrompt' = RenderedPrompt(promptInfo')
  /\ OnlyAppends
  /\ Appended = << [type |-> "output", content |-> <<>>, prompt |-> <<>>] >>

\* C3 as stated: a response that carries newDir and is not an interactive
\* signal sets the full directory to newDir, recomputes the display directory
\* and the prompt from it, and appends exactly one output line with empty
\* content and none of the response's outputLines.
C3_NewDirStoredAsSent ==
  [][\A i \in 1..Len(executing), result \in Results :
       (ExecReturn(i, result) /\ IsDirectoryChange(result)) =>
         (currentWorkingDir' = result.newDir /\ DirectoryChangeEffects)]_vars

\* C3, amended: a response that carries newDir and is not an interactive
\* signal sets the full directory to newDir without its leading and trailing
\* whitespace, recomputes the display directory and the prompt from it, and
\* appends exactly one output line with empty content and none of the
\* response's outputLines.
C3_NewDirStoredTrimmed ==
  [][\A i \in 1..Len(executing), result \in Results :
       (ExecReturn(i, result) /\ IsDirectoryChange(result)) =>
         /\ currentWorkingDir' # <<>> => ~IsWhitespace(Head(currentWorkingDir'))
         /\ currentWorkingDir' # <<>> =>
              ~IsWhitespace(currentWorkingDir'[Len(currentWorkingDir')])
         /\ \E lead, trail \in 0..Len(result.newDir) :
              /\ lead + trail <= Len(result.newDir)
              /\ \A k \in 1..lead : IsWhitespace(result.newDir[k])
              /\ \A k \in (Len(result.newDir) - trail + 1)..Len(result.newDir) :
                   IsWhitespace(result.newDir[k])
              /\ currentWorkingDir' =
                   SubSeq(result.newDir, lead + 1, Len(result.newDir) - trail)
         /\ DirectoryChangeEffects]_vars

\* A user u whose response moved the pane to /home/u/p: the display is ~/p
\* and the last line of the buffer is the blank output line.
C3_Witness ==
  /\ currentWorkingDir = <<"/home/", "u", "/", "p">>
  /\ promptInfo.username = <<"u">>
  /\ promptInfo.currentDir = <<"~", "/", "p">>
  /\ outputLines[Len(outputLines)] = [type |-> "output", content |-> <<>>, prompt |-> <<>>]

\* C4: an interactive-command response leaves the full directory, the display
\* directory and the prompt unchanged and emits no recording event, also when
\* it carries newDir.
C4_InteractiveLeavesPrompt ==
  [][\A i \in 1..Len(executing), result \in Results :
       (ExecReturn(i, result) /\ IsInteractiveResponse(result)) =>
         /\ currentWorkingDir' = currentWorkingDir
         /\ promptInfo' = promptInfo
         /\ currentPrompt' = currentPrompt
         /\ recorded' = recorded]_vars

\* A recording pane in /home/u that has shown the lines of an interactive
\* response whose newDir is /tmp.
C4_Witness ==
  /\ isRecording
  /\ currentWorkingDir = <<"/home/", "u">>
  /\ Len(outputLines) >= 2
  /\ outputLines[Len(outputLines)].content = <<"vim needs a terminal">>
  /\ outputLines[Len(outputLines) - 1].type = "error"

\* C5: for a normal result of the documented shape every element of
\* outputLines is appended in order, as Output when exitCode is 0 and as Error
\* otherwise.
C5_LineKindFollowsExitCode ==
  [][\A i \in 1..Len(executing), result \in Results :
       (ExecReturn(i, result) /\ ~IsInteractiveResponse(result)
          /\ ~IsDirectoryChange(result)) =>
         /\ OnlyAppends
         /\ Appended =
              [k \in 1..Len(result.outputLines) |->
                 [type |-> IF result.exitCode = 0 THEN "output" ELSE "error",
                  content |-> result.outputLines[k], prompt |-> <<>>]]]_vars

\* The message of a failure as the message-extraction policy resolves it: the
\* message of an error object, else a string error as it is, else the string
\* conversion, and the generic phrase for an empty one.
ResolvedMessage(error) ==
  LET given == IF error.type = "string" THEN error.value
               ELSE IF "message" \in DOMAIN error THEN error.message
               ELSE <<"[object Object]">>
  IN  IF given = <<>> THEN <<"Command execution failed">> ELSE given

\* The display name of the session: its name, else host:port.
DisplayName ==
  IF server.name # <<>> THEN server.name
  ELSE server.host \o <<":">> \o NumberToString(server.port)

\* C6: a failure of the execution service does not leave the controller; the
\* resolved message is split on newline and one Error line is appended per
\* segment, a non-empty segment prefixed with the display name and ": ", an
\* empty segment as an empty line; "timeout" on the session "prod-1" gives
\* the one line "prod-1: timeout".
C6_FailureBecomesErrorLines ==
  [][\A i \in 1..Len(executing), error \in Rejections :
       ExecFail(i, error) =>
         LET message == ResolvedMessage(error)
             prefix == DisplayName \o <<":", " ">>
             Segment(content) ==
               IF content = <<>> THEN <<>>
               ELSE SubSeq(content, Len(prefix) + 1, Len(content))
         IN  /\ uncaught' = uncaught
             /\ OnlyAppends
             /\ Len(Appended) =
                  1 + Cardinality({k \in 1..Len(message) : message[k] = "\n"})
             /\ \A k \in 1..Len(Appended) :
                  /\ Appended[k].type = "error"
                  /\ Appended[k].prompt = <<>>
                  /\ \/ Appended[k].content = <<>>
                     \/ /\ StartsWith(Appended[k].content, prefix)
                        /\ Len(Appended[k].content) > Len(prefix)
                  /\ \A j \in 1..Len(Appended[k].content) :
                       Appended[k].content[j] # "\n"
             /\ Join([k \in 1..Len(Appended) |-> Segment(Appended[k].content)],
                     <<"\n">>) = message
             /\ (error = [type |-> "string", value |-> <<"timeout">>]
                   /\ server.name = <<"prod-1">>) =>
                  Appended = << [type |-> "error", prompt |-> <<>>,
                                 content |-> <<"prod-1", ":", " ", "timeout">>] >>]_vars

\* The session "prod-1" after the failure "timeout" of a dispatched command.
C6_Witness ==
  /\ server.name = <<"prod-1">>
  /\ executing = <<>>
  /\ outputLines[Len(outputLines)] =
       [type |-> "error", prompt |-> <<>>,
        content |-> <<"prod-1", ":", " ", "timeout">>]

\* The controller is Idle when no execution request of the pane is pending.
Idle == executing = <<>>

\* C7: every dispatch whose execution request resolves, with whatever outcome,
\* returns the controller to Idle, and a command submitted after that is
\* dispatched; the resolved command is not sent again.
C7_ResolutionReturnsToIdle ==
  [][/\ (\E i \in 1..Len(executing) :
           \/ \E result \in Results : ExecReturn(i, result)
           \/ \E error \in Rejections : ExecFail(i, error)) => Idle'
     /\ (Idle /\ Submission /\ ~IsBlank(currentInput)) => Len(executing') = 1]_vars

\* C8: the submission of an input that is empty after trimming appends exactly
\* one Input line with the current prompt and empty content, invokes no
\* execution, emits no recording event and leaves the history entries, the
\* full directory and the prompt unchanged.
C8_BlankSubmission ==
  [][(Submission /\ IsBlank(currentInput)) =>
       /\ OnlyAppends
       /\ Appended = << [type |-> "input", content |-> <<>>, prompt |-> currentPrompt] >>
       /\ executing' = executing
       /\ recorded' = recorded
       /\ commandHistory' = commandHistory
       /\ currentWorkingDir' = currentWorkingDir
       /\ currentPrompt' = currentPrompt]_vars

\* A recording pane of user u that has just taken a whitespace-only input.
C8_Witness ==
  /\ isRecording
  /\ submitted # <<>>
  /\ submitted[Len(submitted)] = <<" ">>
  /\ outputLines[Len(outputLines)] =
       [type |-> "input", content |-> <<>>,
        prompt |-> <<"u", "@", "web", ":", "~", "$", " ">>]

\* The trimmed non-empty ones among the inputs, in their order.
RECURSIVE TrimmedNonEmpty(_)
TrimmedNonEmpty(inputs) ==
  IF inputs = <<>> THEN <<>>
  ELSE IF IsBlank(Head(inputs)) THEN TrimmedNonEmpty(Tail(inputs))
  ELSE <<Trim(Head(inputs))>> \o TrimmedNonEmpty(Tail(inputs))

\* C9: after any sequence of submissions and history navigation the history
\* entries are exactly the trimmed non-empty submitted commands in the order of
\* submission, none dropped, deduplicated or reordered.
C9_HistoryIsLinearLog == commandHistory = TrimmedNonEmpty(submitted)

\* The same padded command submitted twice, and the history key pressed.
C9_Witness ==
  /\ submitted = << <<" ", "ls", " ">>, <<" ", "ls", " ">> >>
  /\ commandHistory = << <<"ls">>, <<"ls">> >>
  /\ historyIndex = 0

\* C10: right after every submission the history cursor equals the number of
\* history entries, wherever the history keys had moved it.
C10_CursorResetOnSubmission ==
  [][Submission => historyIndex' = Len(commandHistory')]_vars

\* The history entry at a cursor position, entries[cursor], counted from 0.
Entry(entries, cursor) == entries[cursor + 1]

\* C11: pressing down with the cursor below entries.length - 1 increments the
\* cursor and puts entries[cursor] in the edit buffer; otherwise, at or past
\* the newest entry or with an empty history, it sets the cursor to
\* entries.length and clears the edit buffer.  The entries stay as they are.
C11_DownMovesTowardsNewest ==
  [][HandleHistoryDown =>
       /\ commandHistory' = commandHistory
       /\ historyIndex < Len(commandHistory) - 1 =>
            /\ historyIndex' = historyIndex + 1
            /\ currentInput' = Entry(commandHistory, historyIndex')
       /\ ~(historyIndex < Len(commandHistory) - 1) =>
            /\ historyIndex' = Len(commandHistory)
            /\ currentInput' = <<>>]_vars

\* A pane with no history whose cursor the down key has moved to
\* entries.length, which no other operation does while the history is empty.
C11_Witness ==
  /\ commandHistory = <<>>
  /\ historyIndex = Len(commandHistory)
  /\ currentInput = <<>>

\* C12: pressing up with the cursor greater than 0 decrements the cursor and
\* puts entries[cursor] in the edit buffer; with the cursor already 0 or with
\* an empty history it changes neither the cursor nor the edit buffer.  The
\* entries stay as they are.
C12_UpMovesTowardsOldest ==
  [][HandleHistoryUp =>
       /\ commandHistory' = commandHistory
       /\ historyIndex > 0 =>
            /\ historyIndex' = historyIndex - 1
            /\ currentInput' = Entry(commandHistory, historyIndex')
       /\ (historyIndex = 0 \/ commandHistory = <<>>) =>
            /\ historyIndex' = historyIndex
            /\ currentInput' = currentInput]_vars

\* Two commands submitted and the up key pressed back to the oldest of them,
\* which is now in the edit buffer; only the up key brings the cursor of a
\* non-empty history to 0.
C12_Witness ==
  /\ commandHistory = << <<"ls">>, <<"cd">> >>
  /\ historyIndex = 0
  /\ currentInput = <<"ls">>

\* A completion result that asks for its match list to be shown and has one.
ShowsMatches(result) ==
  result.shouldShowMatches /\ "matches" \in DOMAIN result /\ result.matches # <<>>

\* The one Output line of a match list: the matches joined by two spaces.
MatchListLine(result) ==
  [type |-> "output", content |-> Join(result.matches, <<" ", " ">>), prompt |-> <<>>]

\* The effect of a completion result under the precedence of C13, for a given
\* reading of "the result carries completedInput".
CompletionPrecedence(result, carries) ==
  /\ currentPrompt' = currentPrompt
  /\ carries =>
       /\ currentInput' = result.completedInput
       /\ outputLines' = outputLines
  /\ (~carries /\ ShowsMatches(result)) =>
       /\ currentInput' = currentInput
       /\ OnlyAppends
       /\ Appended = << MatchListLine(result) >>
  /\ (~carries /\ ~ShowsMatches(result)) =>
       /\ currentInput' = currentInput
       /\ outputLines' = outputLines

\* C13 as stated: a completion result that carries completedInput replaces
\* the edit buffer and appends no match list, whatever matches and
\* shouldShowMatches are; only a result without completedInput, with
\* shouldShowMatches and non-empty matches, appends exactly one Output line of
\* the matches joined by two spaces; otherwise nothing visible changes.
C13_CompletedInputPresentWins ==
  [][\A i \in 1..Len(completing), result \in CompletionResults :
       CompleteReturn(i, result) =>
         CompletionPrecedence(result, "completedInput" \in DOMAIN result)]_vars

\* C13, amended: a completion result that carries a non-empty completedInput
\* replaces the edit buffer and appends no match list, whatever matches and
\* shouldShowMatches are; only a result whose completedInput is absent or
\* empty, with shouldShowMatches and non-empty matches, appends exactly one
\* Output line of the matches joined by two spaces; otherwise nothing visible
\* changes.
C13_NonEmptyCompletedInputWins ==
  [][\A i \in 1..Len(completing), result \in CompletionResults :
       CompleteReturn(i, result) =>
         CompletionPrecedence(result,
           "completedInput" \in DOMAIN result /\ result.completedInput # <<>>)]_vars

\* A pane whose one completion request was answered with a completion, which
\* is now the edit buffer, and whose buffer holds no match list.
C13_Witness ==
  /\ tabs = 1
  /\ completing = <<>>
  /\ currentInput = <<"ls", " ">>
  /\ \A k \in 1..Len(outputLines) :
       outputLines[k].content # Join(Matches, <<" ", " ">>)

\* C14: a failure of the completion service is swallowed by the controller:
\* nothing leaves the handler, and the edit buffer, the output buffer, the
\* history with its cursor and the prompt state are as they were before the
\* failed request returned.
C14_CompletionFailureSwallowed ==
  [][\A i \in 1..Len(completing), error \in Rejections :
       CompleteFail(i, error) =>
         /\ uncaught' = uncaught
         /\ currentInput' = currentInput
         /\ outputLines' = outputLines
         /\ commandHistory' = commandHistory
         /\ historyIndex' = historyIndex
         /\ promptInfo' = promptInfo
         /\ currentWorkingDir' = currentWorkingDir
         /\ currentPrompt' = currentPrompt]_vars

\* A connected pane of user u whose one completion request, for a padded
\* command, has come back: the input is still the padded command, the buffer
\* still holds the welcome line alone and nothing was thrown.
C14_Witness ==
  /\ connected
  /\ tabs = 1
  /\ completing = <<>>
  /\ currentInput = <<" ", "ls", " ">>
  /\ Len(outputLines) = 1
  /\ promptInfo.username = <<"u">>
  /\ uncaught = <<>>

\* The context default of the username and of the hostname as C15 states
\* them, and as the catch block gives them when the context's value is empty.
ContextUsername == server.username
ContextHostname == server.host
ContextUsernameOrUser == IF server.username # <<>> THEN server.username ELSE <<"user">>
ContextHostnameOrLocalhost == IF server.host # <<>> THEN server.host ELSE <<"localhost">>

\* The end of a prompt-info refresh whose probe failed, for given context
\* defaults: nothing is thrown, the field of the failed probe has its default,
\* and the prompt is rendered from the prompt state.
FailedRefreshFallsBack(i, username, hostname) ==
  /\ uncaught' = uncaught
  /\ fetching[i].pc = "whoami" => promptInfo'.username = username
  /\ fetching[i].pc = "hostname" => promptInfo'.hostname = hostname
  /\ fetching[i].pc = "id" => promptInfo'.isRoot = FALSE
  /\ currentPrompt' = RenderedPrompt(promptInfo')

\* C15 as stated: a failed probe of the prompt-info refresh is not propagated
\* and the field of the failed probe takes its context default, username =
\* context.username, hostname = context.host, isRoot = false; every refresh
\* ends with the prompt "{username}@{hostname}:{displayDir}{symbol} ".
C15_FailedProbeTakesContextValue ==
  [][/\ \A i \in 1..Len(fetching) :
          FetchProbeFail(i) => FailedRefreshFallsBack(i, ContextUsername, ContextHostname)
     /\ \A i \in 1..Len(fetching), output \in PwdOutputs :
          FetchPwdReturn(i, output) => currentPrompt' = RenderedPrompt(promptInfo')]_vars

\* C15, amended: a failed probe of the prompt-info refresh is not propagated
\* and the field of the failed probe takes its context default, username =
\* context.username or "user" when that is empty, hostname = context.host or
\* "localhost" when that is empty, isRoot = false; every refresh ends with the
\* prompt "{username}@{hostname}:{displayDir}{symbol} ".
C15_FailedProbeTakesDefault ==
  [][/\ \A i \in 1..Len(fetching) :
          FetchProbeFail(i) =>
            FailedRefreshFallsBack(i, ContextUsernameOrUser, ContextHostnameOrLocalhost)
     /\ \A i \in 1..Len(fetching), output \in PwdOutputs :
          FetchPwdReturn(i, output) => currentPrompt' = RenderedPrompt(promptInfo')]_vars

\* A connected pane on the server without a username after a probe of its
\* refresh failed: the prompt is "user@db:~$ ".
C15_Witness ==
  /\ connected
  /\ server.username = <<>>
  /\ fetching = <<>>
  /\ promptInfo = [username |-> <<"user">>, hostname |-> <<"db">>,
                   isRoot |-> FALSE, currentDir |-> <<"~">>]
  /\ currentPrompt = <<"user", "@", "db", ":", "~", "$", " ">>

\* C16: when the connected flag of the session changes to false, the prompt
\* state is reset to username "", hostname "", isRoot false and display
\* directory "~", and the rendered prompt becomes the idle prompt "$ ".
C16_DisconnectResetsPrompt ==
  [][(connected /\ ~connected') =>
       /\ promptInfo'.username = <<>>
       /\ promptInfo'.hostname = <<>>
       /\ promptInfo'.isRoot = FALSE
       /\ promptInfo'.currentDir = <<"~">>
       /\ currentPrompt' = <<"$", " ">>]_vars

\* A pane that took a command at the prompt "root@web:/tmp# " and then lost
\* its connection: the prompt is the idle one again.
C16_Witness ==
  /\ ~connected
  /\ toggles = 1
  /\ \E k \in 1..Len(outputLines) :
       /\ outputLines[k].type = "input"
       /\ outputLines[k].prompt = <<"root", "@", "web", ":", "/tmp", "#", " ">>
  /\ promptInfo.username = <<>>
  /\ promptInfo.isRoot = FALSE
  /\ currentPrompt = <<"$", " ">>

\* C17: the output buffer is append-only except for clear: every operation
\* other than clear (connect, submit, response handling, failure handling,
\* completion) leaves the lines appended before unchanged in kind, content,
\* prompt text and order and only adds lines at the end; clear empties the
\* buffer.
C17_AppendOnlyExceptClear ==
  [][/\ Clear => outputLines' = <<>>
     /\ ~Clear =>
          /\ Len(outputLines') >= Len(outputLines)
          /\ \A k \in 1..Len(outputLines) :
               /\ outputLines'[k].type = outputLines[k].type
               /\ outputLines'[k].content = outputLines[k].content
               /\ outputLines'[k].prompt = outputLines[k].prompt]_vars

\* A buffer that was cleared while a command was pending and now holds the
\* error line of its failure and, after it, a match list.
C17_Witness ==
  /\ Len(outputLines) = 2
  /\ outputLines[1] = [type |-> "error", prompt |-> <<>>,
                       content |-> <<"prod-1", ":", " ", "timeout">>]
  /\ outputLines[2].content = Join(Matches, <<" ", " ">>)

\* The recording event of the submission of a command.
InputEvent(command) == [type |-> "input", content |-> command]

\* C18: a recording event of type "output" is emitted for a dispatched
\* command only when recording is enabled and the response is a normal result,
\* never for an interactive-command response, a directory-change response or
\* an execution failure, and it is emitted after the "input" recording event
\* of the same command.
C18_OutputEventAfterInputEvent ==
  [][/\ \A i \in 1..Len(executing), result \in Results :
          (ExecReturn(i, result) /\ recorded' # recorded) =>
            /\ isRecording
            /\ ~IsInteractiveResponse(result)
            /\ ~IsDirectoryChange(result)
            /\ recorded' = Append(recorded, [type |-> "output", content |-> result.output])
            /\ \E k \in 1..Len(recorded) : recorded[k] = InputEvent(executing[i].command)
     /\ \A i \in 1..Len(executing), error \in Rejections :
          ExecFail(i, error) => recorded' = recorded]_vars

\* C19: in every reachable state, from the creation of the pane and after any
\* sequence of submissions and presses of the up and down keys, the history
\* cursor is an integer in the range [0, entries.length].
C19_CursorInRange == historyIndex \in 0..Len(commandHistory)

\* C20: while the session is disconnected the rendered prompt is the idle
\* prompt "$ " and the prompt state is at its reset defaults; a response to a
\* command or to a prompt-info probe that was in flight at the disconnect
\* changes neither when it arrives afterwards.
C20_DisconnectedPromptStaysIdle ==
  ~connected =>
    /\ currentPrompt = <<"$", " ">>
    /\ promptInfo = [username |-> <<>>, hostname |-> <<>>, isRoot |-> FALSE,
                     currentDir |-> <<"~">>]

\* C22: after any sequence of registerShortcut, returned-disposer,
\* unregisterShortcut and unregisterAllShortcuts calls the set of keydown
\* handlers attached to the document equals the set of handlers held in the
\* shortcuts registry; so after unregisterAllShortcuts no handler registered
\* through registerShortcut is attached, also when a key and modifier
\* combination was registered more than once.
C22_AttachedEqualsRegistry ==
  listeners = {shortcuts[k] : k \in DOMAIN shortcuts}

\* The working directory a request to the execution service and a request to
\* the completion service made in this state carry.
ExecutionDir == ExecRequest(<<"ls">>).currentDir
CompletionDir == CompleteRequest(<<"ls">>).currentDir

\* The session has been disconnected and connected again, and the one
\* prompt-info refresh that is pending is the one of the new connection: the
\* banner of the connection is the last line of the buffer, so no command was
\* submitted and no response arrived since, and the prompt state is still the
\* reset one, so no refresh has ended since.
RefreshingAfterReconnect ==
  /\ connected
  /\ toggles >= 2
  /\ Len(fetching) = 1
  /\ promptInfo.username = <<>>
  /\ outputLines # <<>>
  /\ outputLines[Len(outputLines)].content =
       <<"Connected to ">> \o server.host \o <<":">> \o NumberToString(server.port)

\* C21: after a disconnect followed by a reconnect, the working directory the
\* first request made after the end of the new connection's prompt-info
\* refresh passes to the execution or completion service is the directory that
\* refresh obtained, or "~" when the refresh failed, never the directory left
\* over from before the disconnect.
C21_ReconnectUsesRefreshedDirectory ==
  [][RefreshingAfterReconnect =>
       /\ \A i \in 1..Len(fetching), output \in PwdOutputs :
            FetchPwdReturn(i, output) =>
              LET obtained == IF IsBlank(output) THEN <<"~">> ELSE Trim(output)
              IN  ExecutionDir' = obtained /\ CompletionDir' = obtained
       /\ \A i \in 1..Len(fetching) :
            FetchProbeFail(i) =>
              ExecutionDir' = <<"~">> /\ CompletionDir' = <<"~">>]_vars

====
